---- MODULE Spec2Model ----
(***************************************************************************)
(* Notification backend: device registry, pending/sent message lifecycle,  *)
(* read receipts and broadcasts, as implemented by the express server      *)
(* (src/server/index.js, and its superset with the user and PUT/PATCH      *)
(* routes in src/unnamed/part_001).                                        *)
(*                                                                         *)
(* Modelling conventions                                                   *)
(*   - identifiers are Date.now().toString(): the value of the millisecond *)
(*     clock, a positive integer; 0 stands for an absent / falsy id;       *)
(*   - timestamps are new Date().toISOString(): the value of the clock;    *)
(*     0 stands for null;                                                  *)
(*   - "absent" is a request field that is not supplied (undefined),       *)
(*     "null" the stored JavaScript null;                                  *)
(*   - JavaScript arrays are sequences, index -1 of findIndex is 0;        *)
(*   - loop is the event loop of the process: the requests that arrived    *)
(*     (inbox), the handler calls that have started and not returned       *)
(*     (active), the requests answered (done) and whether a request has    *)
(*     arrived while a handler was running (overlapped). The handlers of   *)
(*     the other sections run from load to save in one step.               *)
(***************************************************************************)
EXTENDS Integers, Sequences, FiniteSets, TLC

VARIABLES devices, pending, sent, broadcasts, clock, mode, resp, loop

vars == <<devices, pending, sent, broadcasts, clock, mode, resp, loop>>

(* ------------------------------ bounds --------------------------------- *)
MaxClock == 2
MaxDevices == 2
MaxMessages == 2
MaxBroadcasts == 2

(* ------------------------------ inputs --------------------------------- *)
Absent == "absent"
Null == "null"
Tokens == {"t1", "t2"}
UserIds == {"u1", "u2"}
\* a caller-supplied timestamp later than every clock value of the run
FutureTime == MaxClock + 1

\* request bodies of POST /api/devices: token, userId and the passthrough
\* attributes id and lastSeen (0 = not supplied)
DeviceInputs ==
  [token : Tokens \cup {Absent}, userId : UserIds \cup {Absent},
   id : {0, 1}, lastSeen : {0, FutureTime}]

\* request bodies of POST /api/users
UserInputs ==
  [id : UserIds \cup {Absent}, token : Tokens \cup {Absent},
   email : {Absent, "e1"}, displayName : {Absent, "n1"}]

\* targetUsers of POST /api/messages/send-targeted: not supplied, or an array
TargetInputs ==
  {[present |-> FALSE, users |-> {}]} \cup
  {[present |-> TRUE, users |-> S] : S \in SUBSET UserIds}

IdInputs == 0..MaxClock
\* an id the request body supplies as a falsy value (null, "" or 0)
FalsyId == -1
\* ?limit= of GET /api/broadcasts/recent: a number, 0 when not supplied
LimitInputs == {0, 1}
TextInputs == {Absent, "A"}
StatusInputs == {Absent, "received"}

(* ------------------------------ helpers -------------------------------- *)
\* a lookup that returns the last match instead of the first
FindLastIndex(matching) ==
  IF matching = {}
    THEN 0
    ELSE CHOOSE i \in matching : \A j \in matching : i >= j

\* Array.prototype.findIndex / find, given the set of the indices whose
\* element satisfies the callback: the first of them, 0 when there is none
FindIndex(matching) ==
  IF matching = {}
    THEN 0
    ELSE CHOOSE i \in matching : \A j \in matching : i <= j

\* the indices of the records of s with the given token, id or deviceId
ByToken(s, token) == {i \in 1..Len(s) : s[i].token = token}
ById(s, id) == {i \in 1..Len(s) : s[i].id = id}
ByDeviceId(s, deviceId) == {i \in 1..Len(s) : s[i].deviceId = deviceId}

\* a splice without its delete count, which removes the rest of the array
SpliceToEnd(s, i) == SubSeq(s, 1, i - 1)

\* Array.prototype.splice(index, 1)
Splice(s, i) == SubSeq(s, 1, i - 1) \o SubSeq(s, i + 1, Len(s))

\* Array.prototype.includes
Includes(s, x) == \E i \in 1..Len(s) : s[i] = x

\* a || b on strings where "absent" is undefined
OrElse(a, b) == IF a # Absent THEN a ELSE b

\* the HTTP response of the last handler: status code, message text, the id
\* the request named (or the id returned), a returned count, and a note of the
\* branch the handler took
Response(op, status, msg, id, count, note) ==
  [op |-> op, status |-> status, msg |-> msg, id |-> id, count |-> count,
   note |-> note]

\* the response of a handler that answers with a document: res.json(body)
ReadResponse(op, status, body) ==
  [op |-> op, status |-> status, msg |-> "", id |-> 0, count |-> 0,
   note |-> "", body |-> body]

(* ------------------------------ storage -------------------------------- *)
getDevices == devices
getPendingMessages == pending
getSentMessages == sent
getBroadcastMessages == broadcasts

Init ==
  /\ devices = <<>>
  /\ pending = <<>>
  /\ sent = <<>>
  /\ broadcasts = <<>>
  /\ clock = 1
  /\ mode \in {"file", "memory"}
  /\ resp = Response("none", 0, "", 0, 0, "")
  /\ loop = [inbox |-> {}, active |-> {}, done |-> {}, overlapped |-> FALSE]

\* the millisecond clock advances between (never inside) handler bodies
Tick ==
  /\ clock < MaxClock
  /\ clock' = clock + 1
  /\ UNCHANGED <<devices, pending, sent, broadcasts, mode, resp, loop>>

(* --------------------------- device registry --------------------------- *)
\* the id a request body supplies, as it is stored: a falsy one is stored as
\* it was supplied and reads as the absent id 0
SuppliedId(id) == IF id = FalsyId THEN 0 ELSE id

\* Object.assign(existingDevice, {...device, lastSeen: now})
MergeDevice(d, in, now) ==
  [d EXCEPT !.token = in.token,
            !.userId = OrElse(in.userId, @),
            !.id = IF in.id # 0 THEN SuppliedId(in.id) ELSE @,
            !.lastSeen = now]

\* {id: now, token, userId: device.userId || null, platform, createdAt: now,
\*  lastSeen: now, ...device}
NewDevice(in, now) ==
  [id |-> IF in.id # 0 THEN SuppliedId(in.id) ELSE now,
   token |-> in.token,
   userId |-> OrElse(in.userId, Null),
   platform |-> "android",
   createdAt |-> now,
   lastSeen |-> IF in.lastSeen # 0 THEN in.lastSeen ELSE now,
   deviceName |-> Absent,
   email |-> Absent]

RegisterDevice(in) ==
  LET devs == getDevices
      ex == FindIndex(ByToken(devs, in.token))
  IN
  /\ UNCHANGED <<pending, sent, broadcasts, clock, mode, loop>>
  /\ IF in.token = Absent
       THEN /\ resp' = Response("registerDevice", 400, "FCM token is required",
                                0, 0, "")
            /\ UNCHANGED devices
       ELSE /\ ex = 0 => Len(devs) < MaxDevices
            /\ devices' = IF ex # 0
                 THEN [devs EXCEPT ![ex] = MergeDevice(@, in, clock)]
                 ELSE Append(devs, NewDevice(in, clock))
            \* deviceId: existingDevice?.id || devices[devices.length - 1].id
            /\ resp' = Response("registerDevice", 200,
                 "Device registered successfully",
                 IF ex # 0 /\ devices'[ex].id # 0
                   THEN devices'[ex].id
                   ELSE devices'[Len(devices')].id,
                 0, IF ex # 0 THEN "existing" ELSE "new")

\* POST /api/users: the request supplies id, token, email and displayName
\* (deviceName and platform are not supplied)
NewUserDevice(u, now) ==
  [id |-> now,
   token |-> u.token,
   userId |-> u.id,
   platform |-> "unknown",
   createdAt |-> now,
   lastSeen |-> now,
   deviceName |-> u.id,
   email |-> u.email]

\* an update that does not rotate the token
UpdateUserDeviceKeepToken(d, u, now) ==
  [d EXCEPT !.email = OrElse(u.email, @),
            !.deviceName = OrElse(u.displayName, OrElse(u.email, @)),
            !.lastSeen = now]

\* the body of userDevices.forEach
UpdateUserDevice(d, u, now) ==
  [d EXCEPT !.email = OrElse(u.email, @),
            !.deviceName = OrElse(u.displayName, OrElse(u.email, @)),
            !.lastSeen = now,
            !.token = OrElse(u.token, @)]

UpsertUser(u) ==
  LET devs == getDevices
      owned == {i \in 1..Len(devs) : devs[i].userId = u.id}
  IN
  /\ UNCHANGED <<pending, sent, broadcasts, clock, mode, loop>>
  /\ IF u.id = Absent
       THEN /\ resp' = Response("upsertUser", 400, "User ID is required", 0, 0, "")
            /\ UNCHANGED devices
       ELSE IF owned = {} /\ u.token # Absent
         THEN /\ Len(devs) < MaxDevices
              /\ devices' = Append(devs, NewUserDevice(u, clock))
              /\ resp' = Response("upsertUser", 200, "User updated", 0, 1, "new")
         ELSE IF owned # {}
           THEN /\ devices' = [i \in 1..Len(devs) |->
                     IF i \in owned THEN UpdateUserDevice(devs[i], u, clock)
                                    ELSE devs[i]]
                /\ resp' = Response("upsertUser", 200, "User updated", 0,
                                    Cardinality(owned), "existing")
           ELSE /\ UNCHANGED devices
                /\ resp' = Response("upsertUser", 200, "User created", 0, 0, "none")

(* --------------------------- message lifecycle ------------------------- *)
NewMessage(title, body, now) ==
  [id |-> now, title |-> title, body |-> body, createdAt |-> now,
   status |-> "pending"]

\* a createMessage that stores the record before it validates the request
CreateMessageStoreFirst(title, body) ==
  /\ UNCHANGED <<devices, sent, broadcasts, clock, mode, loop>>
  /\ Len(pending) + Len(sent) < MaxMessages
  /\ pending' = Append(getPendingMessages, NewMessage(title, body, clock))
  /\ resp' = IF title = Absent \/ body = Absent
               THEN Response("createMessage", 400,
                             "Title and body are required", 0, 0, "")
               ELSE Response("createMessage", 201,
                             "Message created successfully", clock, 0, "")

CreateMessage(title, body) ==
  /\ UNCHANGED <<devices, sent, broadcasts, clock, mode, loop>>
  /\ IF title = Absent \/ body = Absent
       THEN /\ resp' = Response("createMessage", 400,
                                "Title and body are required", 0, 0, "")
            /\ UNCHANGED pending
       ELSE /\ Len(pending) + Len(sent) < MaxMessages
            /\ pending' = Append(getPendingMessages, NewMessage(title, body, clock))
            /\ resp' = Response("createMessage", 201,
                                "Message created successfully", clock, 0, "")

\* a recipient entry that forgets the owning user of the device
RecipientNoUser(d) ==
  [deviceId |-> d.id, token |-> d.token, userId |-> Null,
   status |-> "sent", readAt |-> 0]

\* devices.map((d) => ({deviceId: d.id, token: d.token, userId: d.userId,
\*                      status: "sent", readAt: null}))
Recipient(d) ==
  [deviceId |-> d.id, token |-> d.token, userId |-> d.userId,
   status |-> "sent", readAt |-> 0]

\* {...messageToSend, sentAt, status: "sent", [targetType,] recipients};
\* POST /api/messages/send writes no targetType
SentMessage(m, now, targetType, targetDevices) ==
  [id |-> m.id, title |-> m.title, body |-> m.body, createdAt |-> m.createdAt,
   status |-> "sent", sentAt |-> now, targetType |-> targetType,
   recipients |-> [i \in 1..Len(targetDevices) |-> Recipient(targetDevices[i])]]

\* a send that looks the message up before it checks the registry
SendMessageLookupFirst(messageId) ==
  LET pendingMessages == getPendingMessages
      devs == getDevices
      messageIndex == FindIndex(ById(pendingMessages, messageId))
  IN
  /\ UNCHANGED <<devices, broadcasts, clock, mode, loop>>
  /\ IF messageId = 0
       THEN /\ resp' = Response("sendMessage", 400, "Message ID is required",
                                messageId, 0, "")
            /\ UNCHANGED <<pending, sent>>
       ELSE IF messageIndex = 0
         THEN /\ resp' = Response("sendMessage", 404, "Message not found",
                                  messageId, 0, "")
              /\ UNCHANGED <<pending, sent>>
         ELSE IF Len(devs) = 0
           THEN /\ resp' = Response("sendMessage", 404, "No devices registered",
                                    messageId, 0, "")
                /\ UNCHANGED <<pending, sent>>
           ELSE /\ pending' = Splice(pendingMessages, messageIndex)
                /\ sent' = Append(getSentMessages,
                     SentMessage(pendingMessages[messageIndex], clock, Absent, devs))
                /\ resp' = Response("sendMessage", 200,
                                    "Message sent successfully", messageId,
                                    Len(devs), "")


SendMessage(messageId) ==
  LET pendingMessages == getPendingMessages
      sentMessages == getSentMessages
      devs == getDevices
      messageIndex == FindIndex(ById(pendingMessages, messageId))
  IN
  /\ UNCHANGED <<devices, broadcasts, clock, mode, loop>>
  /\ IF messageId = 0
       THEN /\ resp' = Response("sendMessage", 400, "Message ID is required",
                                messageId, 0, "")
            /\ UNCHANGED <<pending, sent>>
       ELSE IF Len(devs) = 0
         THEN /\ resp' = Response("sendMessage", 404, "No devices registered",
                                  messageId, 0, "")
              /\ UNCHANGED <<pending, sent>>
         ELSE IF messageIndex = 0
           THEN /\ resp' = Response("sendMessage", 404, "Message not found",
                                    messageId, 0, "")
                /\ UNCHANGED <<pending, sent>>
           ELSE /\ pending' = Splice(pendingMessages, messageIndex)
                /\ sent' = Append(sentMessages,
                     SentMessage(pendingMessages[messageIndex], clock, Absent, devs))
                /\ resp' = Response("sendMessage", 200,
                                    "Message sent successfully", messageId,
                                    Len(devs), "")

\* a selection that falls back to every device when the filter matches none
TargetDevicesFallback(devs, targetUsers) ==
  LET matching == SelectSeq(devs, LAMBDA d : d.userId \in targetUsers.users)
  IN IF targetUsers.present /\ targetUsers.users # {} /\ Len(matching) > 0
       THEN matching
       ELSE devs

\* a selection that uses find instead of filter: the first matching device only
TargetDevicesFirst(devs, targetUsers) ==
  LET matching == SelectSeq(devs, LAMBDA d : d.userId \in targetUsers.users)
  IN IF targetUsers.present /\ targetUsers.users # {}
       THEN IF Len(matching) > 0 THEN <<matching[1]>> ELSE <<>>
       ELSE devs

\* targetUsers && targetUsers.length > 0
\*   ? devices.filter((device) => targetUsers.includes(device.userId)) : devices
TargetDevices(devs, targetUsers) ==
  IF targetUsers.present /\ targetUsers.users # {}
    THEN SelectSeq(devs, LAMBDA d : d.userId \in targetUsers.users)
    ELSE devs

\* targetUsers ? "specific" : "all"  (an empty array is truthy)
TargetType(targetUsers) == IF targetUsers.present THEN "specific" ELSE "all"

SendTargeted(messageId, targetUsers) ==
  LET pendingMessages == getPendingMessages
      messageIndex == FindIndex(ById(pendingMessages, messageId))
      devs == getDevices
      targetDevices == TargetDevices(devs, targetUsers)
  IN
  /\ UNCHANGED <<devices, broadcasts, clock, mode, loop>>
  /\ IF messageId = 0
       THEN /\ resp' = Response("sendTargeted", 400, "Message ID is required",
                                messageId, 0, "")
            /\ UNCHANGED <<pending, sent>>
       ELSE IF messageIndex = 0
         THEN /\ resp' = Response("sendTargeted", 404, "Message not found",
                                  messageId, 0, "")
              /\ UNCHANGED <<pending, sent>>
         ELSE IF Len(targetDevices) = 0
           THEN /\ resp' = Response("sendTargeted", 404,
                     "No matching devices found for specified users",
                     messageId, 0, "")
                /\ UNCHANGED <<pending, sent>>
           ELSE /\ pending' = Splice(pendingMessages, messageIndex)
                /\ sent' = Append(getSentMessages,
                     SentMessage(pendingMessages[messageIndex], clock,
                                 TargetType(targetUsers), targetDevices))
                /\ resp' = Response("sendTargeted", 200, "", messageId,
                                    Len(targetDevices), "")

(* ---------------------------- failing writes -------------------------- *)
\* the write of a send that throws: savePendingMessages or saveSentMessages
WriteInputs == {"pending", "sent"}

\* a send that restores the pending file when a write fails
AfterFailedWriteRestored(pendingMessages, messageIndex, write) ==
  pendingMessages

\* the pending file after a send in which a write threw: savePendingMessages
\* (the first write) has stored the spliced array when saveSentMessages (the
\* second) throws, and nothing writes it back
AfterFailedWrite(pendingMessages, messageIndex, write) ==
  IF write = "sent"
    THEN Splice(pendingMessages, messageIndex)
    ELSE pendingMessages

\* a send that passed its checks, in which fs.writeFileSync throws in the
\* given write: the catch answers 500 with the error's message. The memory
\* backend assigns instead of writing and cannot throw.
FailingSend(op, messageId, targetDevices, write) ==
  LET pendingMessages == getPendingMessages
      messageIndex == FindIndex(ById(pendingMessages, messageId))
  IN
  /\ mode = "file"
  /\ messageId # 0
  /\ messageIndex # 0
  /\ Len(targetDevices) > 0
  /\ UNCHANGED <<devices, sent, broadcasts, clock, mode, loop>>
  /\ pending' = AfterFailedWrite(pendingMessages, messageIndex, write)
  /\ resp' = Response(op, 500, "write failed", messageId, 0, write)

\* POST /api/messages/send with a failing write
SendMessageWriteFails(messageId, write) ==
  FailingSend("sendMessage", messageId, getDevices, write)

\* POST /api/messages/send-targeted with a failing write
SendTargetedWriteFails(messageId, targetUsers, write) ==
  FailingSend("sendTargeted", messageId,
              TargetDevices(getDevices, targetUsers), write)

(* ----------------------------- read receipts --------------------------- *)
\* a receipt that also forgets the token the message went to
ReadRecipientForgetToken(r, now) ==
  [r EXCEPT !.readAt = now, !.status = "read", !.token = Null]

\* a receipt that keeps the first read timestamp
ReadRecipientOnce(r, now) ==
  IF r.status = "read" THEN r ELSE [r EXCEPT !.readAt = now, !.status = "read"]

\* recipients[recipientIndex].readAt = now; .status = "read"
ReadRecipient(r, now) == [r EXCEPT !.readAt = now, !.status = "read"]

\* the note of a successful markRead is the status found before the write
MarkRead(messageId, deviceId) ==
  LET sentMessages == getSentMessages
      messageIndex == FindIndex(ById(sentMessages, messageId))
      recipientIndex ==
        FindIndex(ByDeviceId(sentMessages[messageIndex].recipients, deviceId))
  IN
  /\ UNCHANGED <<devices, pending, broadcasts, clock, mode, loop>>
  /\ IF messageId = 0 \/ deviceId = 0
       THEN /\ resp' = Response("markRead", 400,
                 "Message ID and Device ID are required", messageId, 0, "")
            /\ UNCHANGED sent
       ELSE IF messageIndex = 0
         THEN /\ resp' = Response("markRead", 404, "Message not found",
                                  messageId, 0, "")
              /\ UNCHANGED sent
         ELSE IF recipientIndex = 0
           THEN /\ resp' = Response("markRead", 404, "Recipient not found",
                                    messageId, 0, "")
                /\ UNCHANGED sent
           ELSE /\ sent' = [sentMessages EXCEPT
                     ![messageIndex].recipients[recipientIndex] =
                        ReadRecipient(@, clock)]
                /\ resp' = Response("markRead", 200, "Message marked as read",
                     messageId, 0,
                     sentMessages[messageIndex].recipients[recipientIndex].status)

(* ------------------------------ broadcasts ----------------------------- *)
NewBroadcast(title, message, devs, now) ==
  [id |-> now, title |-> title, message |-> message, type |-> "info",
   data |-> [source |-> "broadcast", broadcastId |-> now],
   sentAt |-> now,
   recipients |-> [i \in 1..Len(devs) |-> devs[i].id],
   receivedBy |-> <<>>]

\* a broadcast send without the empty-registry check
SendBroadcastUnchecked(title, message) ==
  /\ UNCHANGED <<devices, pending, sent, clock, mode, loop>>
  /\ IF title = Absent \/ message = Absent
       THEN /\ resp' = Response("sendBroadcast", 400,
                 "Title and message are required", 0, 0, "")
            /\ UNCHANGED broadcasts
       ELSE /\ Len(broadcasts) < MaxBroadcasts
            /\ broadcasts' = Append(getBroadcastMessages,
                                    NewBroadcast(title, message, getDevices, clock))
            /\ resp' = Response("sendBroadcast", 200, "Broadcast sent", clock,
                                Len(getDevices), "")


SendBroadcast(title, message) ==
  LET devs == getDevices
  IN
  /\ UNCHANGED <<devices, pending, sent, clock, mode, loop>>
  /\ IF title = Absent \/ message = Absent
       THEN /\ resp' = Response("sendBroadcast", 400,
                 "Title and message are required", 0, 0, "")
            /\ UNCHANGED broadcasts
       ELSE IF Len(devs) = 0
         THEN /\ resp' = Response("sendBroadcast", 404, "No devices registered",
                                  0, 0, "")
              /\ UNCHANGED broadcasts
         ELSE /\ Len(broadcasts) < MaxBroadcasts
              /\ broadcasts' = Append(getBroadcastMessages,
                                      NewBroadcast(title, message, devs, clock))
              /\ resp' = Response("sendBroadcast", 200, "Broadcast sent", clock,
                                  Len(devs), "")

\* a confirmation that pushes without the includes() test
PushReceivedAlways(b, deviceId) ==
  [b EXCEPT !.receivedBy = Append(@, deviceId)]

\* if (!receivedBy.includes(deviceId)) receivedBy.push(deviceId)
PushReceived(b, deviceId) ==
  IF ~Includes(b.receivedBy, deviceId)
    THEN [b EXCEPT !.receivedBy = Append(@, deviceId)]
    ELSE b

\* the branch of the includes() test
ReceivedNote(b, deviceId) ==
  IF Includes(b.receivedBy, deviceId) THEN "already" ELSE "pushed"

\* POST /api/broadcasts/received and its alias POST
\* /api/messages/broadcasts/received have the same body
ReceivedBody(op, broadcastId, deviceId) ==
  LET bs == getBroadcastMessages
      broadcastIndex == FindIndex(ById(bs, broadcastId))
  IN
  /\ UNCHANGED <<devices, pending, sent, clock, mode, loop>>
  /\ IF broadcastId = 0 \/ deviceId = 0
       THEN /\ resp' = Response(op, 400,
                 "Broadcast ID and Device ID are required", broadcastId, 0, "")
            /\ UNCHANGED broadcasts
       ELSE IF broadcastIndex = 0
         THEN /\ resp' = Response(op, 404, "Broadcast not found", broadcastId,
                                  0, "")
              /\ UNCHANGED broadcasts
         ELSE /\ broadcasts' =
                   [bs EXCEPT ![broadcastIndex] = PushReceived(@, deviceId)]
              /\ resp' = Response(op, 200, "Broadcast marked as received",
                   broadcastId, 0, ReceivedNote(bs[broadcastIndex], deviceId))

PostReceived(broadcastId, deviceId) ==
  ReceivedBody("postReceived", broadcastId, deviceId)

AliasReceived(broadcastId, deviceId) ==
  ReceivedBody("aliasReceived", broadcastId, deviceId)

\* PUT and PATCH /api/broadcasts have the same body
UpdateBody(op, id, deviceId, status) ==
  LET bs == getBroadcastMessages
      broadcastIndex == FindIndex(ById(bs, id))
      marks == deviceId # 0 /\ status = "received"
  IN
  /\ UNCHANGED <<devices, pending, sent, clock, mode, loop>>
  /\ IF id = 0
       THEN /\ resp' = Response(op, 400, "Broadcast ID is required", id, 0, "")
            /\ UNCHANGED broadcasts
       ELSE IF broadcastIndex = 0
         THEN /\ resp' = Response(op, 404, "Broadcast not found", id, 0, "")
              /\ UNCHANGED broadcasts
         ELSE /\ broadcasts' =
                   IF marks
                     THEN [bs EXCEPT ![broadcastIndex] = PushReceived(@, deviceId)]
                     ELSE bs
              /\ resp' = Response(op, 200, "Broadcast updated successfully",
                   id, 0,
                   IF marks THEN ReceivedNote(bs[broadcastIndex], deviceId)
                            ELSE "")

PutBroadcast(id, deviceId, status) ==
  UpdateBody("putBroadcast", id, deviceId, status)

PatchBroadcast(id, deviceId, status) ==
  UpdateBody("patchBroadcast", id, deviceId, status)

(* --------------------------- broadcast reads --------------------------- *)
\* GET /api/broadcasts: res.json(getBroadcastMessages())
ListBroadcasts ==
  /\ UNCHANGED <<devices, pending, sent, broadcasts, clock, mode, loop>>
  /\ resp' = ReadResponse("listBroadcasts", 200, getBroadcastMessages)

\* one step of Array.prototype.sort((a, b) => new Date(b.sentAt) -
\* new Date(a.sentAt)), which is stable: x goes behind the records that are
\* not older than it
InsertBySentAt(sorted, x) ==
  LET k == Cardinality({i \in 1..Len(sorted) : sorted[i].sentAt >= x.sentAt})
  IN SubSeq(sorted, 1, k) \o <<x>> \o SubSeq(sorted, k + 1, Len(sorted))

RECURSIVE SortBySentAt(_)
SortBySentAt(s) ==
  IF s = <<>>
    THEN <<>>
    ELSE InsertBySentAt(SortBySentAt(SubSeq(s, 1, Len(s) - 1)), s[Len(s)])

\* const {limit = 10} = req.query; .slice(0, parseInt(limit))
Slice(s, limit) ==
  LET n == IF limit = 0 THEN 10 ELSE limit
  IN SubSeq(s, 1, IF n < Len(s) THEN n ELSE Len(s))

\* what GET /api/broadcasts/recent leaves in the store and what it returns:
\* sort works in place on the array getBroadcastMessages returned, which is
\* the stored array itself in the memory backend and a parsed copy of the
\* file in the file backend
RecentResult(backend, bs, limit) ==
  [stored |-> IF backend = "memory" THEN SortBySentAt(bs) ELSE bs,
   body |-> Slice(SortBySentAt(bs), limit)]

RecentBroadcasts(limit) ==
  LET result == RecentResult(mode, getBroadcastMessages, limit)
  IN
  /\ UNCHANGED <<devices, pending, sent, clock, mode, loop>>
  /\ broadcasts' = result.stored
  /\ resp' = ReadResponse("recentBroadcasts", 200, result.body)

(* -------------------------------- users -------------------------------- *)
\* if (device.userId): null and undefined are falsy
Truthy(x) == x # Absent /\ x # Null

\* the body of devices.forEach in GET /api/users, on the values of usersMap
\* in insertion order
AddToUsers(users, device) ==
  LET k == FindIndex({i \in 1..Len(users) : users[i].id = device.userId})
  IN IF ~Truthy(device.userId)
       THEN users
       ELSE IF k = 0
         THEN Append(users,
                [id |-> device.userId,
                 displayName |-> OrElse(device.deviceName, device.userId),
                 email |-> OrElse(device.email, Null),
                 deviceCount |-> 1,
                 devices |-> <<device.id>>])
         ELSE [users EXCEPT
                 ![k].deviceCount = @ + 1,
                 ![k].devices = IF Includes(@, device.id)
                                  THEN @
                                  ELSE Append(@, device.id)]

RECURSIVE UsersOf(_)
UsersOf(devs) ==
  IF devs = <<>>
    THEN <<>>
    ELSE AddToUsers(UsersOf(SubSeq(devs, 1, Len(devs) - 1)), devs[Len(devs)])

\* GET /api/users
ListUsers ==
  /\ UNCHANGED <<devices, pending, sent, broadcasts, clock, mode, loop>>
  /\ resp' = ReadResponse("listUsers", 200, UsersOf(getDevices))

\* devices.filter((device) => device.userId === userId)
UserDevices(devs, userId) == SelectSeq(devs, LAMBDA d : d.userId = userId)

\* the user object of GET /api/users/:userId, of a user with devices
UserOf(devs, userId) ==
  LET userDevices == UserDevices(devs, userId)
  IN [id |-> userId,
      displayName |-> OrElse(userDevices[1].deviceName, userId),
      email |-> OrElse(userDevices[1].email, Null),
      deviceCount |-> Len(userDevices),
      devices |-> [i \in 1..Len(userDevices) |-> userDevices[i].id]]

\* GET /api/users/:userId
GetUser(userId) ==
  /\ UNCHANGED <<devices, pending, sent, broadcasts, clock, mode, loop>>
  /\ resp' = IF Len(UserDevices(getDevices, userId)) = 0
               THEN ReadResponse("getUser", 404, <<>>)
               ELSE ReadResponse("getUser", 200, UserOf(getDevices, userId))

\* GET /api/users/:userId/devices
GetUserDevices(userId) ==
  /\ UNCHANGED <<devices, pending, sent, broadcasts, clock, mode, loop>>
  /\ resp' = IF Len(UserDevices(getDevices, userId)) = 0
               THEN ReadResponse("getUserDevices", 404, <<>>)
               ELSE ReadResponse("getUserDevices", 200,
                                 UserDevices(getDevices, userId))

(* ------------------------------ event loop ----------------------------- *)
\* a process that would start a handler while another has not returned
NeverBusy == TRUE

\* the call stack is empty. The body of a handler, from getDevices() to
\* res.json(), is synchronous (readFileSync, writeFileSync, no await and no
\* callback), so the event loop starts the next handler only after the
\* running one has returned
Idle == loop.active = {}

\* a registration request that supplies only its token
TokenOnly(token) ==
  [token |-> token, userId |-> Absent, id |-> 0, lastSeen |-> 0]

\* the devices array a handler call works on: the stored array itself in the
\* memory backend, the copy parsed at load time in the file backend
Local(a) == IF mode = "memory" THEN devices ELSE a.local

\* a POST /api/devices request with a token not seen before reaches the process
Arrive(token) ==
  /\ token \notin loop.inbox \cup loop.done
  /\ \A a \in loop.active : a.token # token
  /\ loop' = [loop EXCEPT !.inbox = @ \cup {token},
                          !.overlapped = @ \/ loop.active # {}]
  /\ UNCHANGED <<devices, pending, sent, broadcasts, clock, mode, resp>>

\* const devices = getDevices()
HandlerLoad(token) ==
  /\ token \in loop.inbox
  /\ Idle
  /\ loop' = [loop EXCEPT
       !.inbox = @ \ {token},
       !.active = @ \cup {[token |-> token, pc |-> "loaded",
                            local |-> getDevices]}]
  /\ UNCHANGED <<devices, pending, sent, broadcasts, clock, mode, resp>>

\* Object.assign(existingDevice, ...) or devices.push({...})
HandlerMutate(a) ==
  LET devs == Local(a)
      ex == FindIndex(ByToken(devs, a.token))
      mutated == IF ex # 0
        THEN [devs EXCEPT ![ex] = MergeDevice(@, TokenOnly(a.token), clock)]
        ELSE Append(devs, NewDevice(TokenOnly(a.token), clock))
  IN
  /\ a \in loop.active
  /\ a.pc = "loaded"
  /\ ex = 0 => Len(devs) < MaxDevices
  /\ loop' = [loop EXCEPT
       !.active = (@ \ {a}) \cup {[a EXCEPT !.pc = "mutated",
                                              !.local = mutated]}]
  /\ devices' = IF mode = "memory" THEN mutated ELSE devices
  /\ UNCHANGED <<pending, sent, broadcasts, clock, mode, resp>>

\* saveDevices(devices); res.json({...})
HandlerSave(a) ==
  LET devs == Local(a)
  IN
  /\ a \in loop.active
  /\ a.pc = "mutated"
  /\ devices' = devs
  /\ loop' = [loop EXCEPT !.active = @ \ {a}, !.done = @ \cup {a.token}]
  /\ resp' = Response("registerDevice", 200, "Device registered successfully",
                      devs[Len(devs)].id, 0, "new")
  /\ UNCHANGED <<pending, sent, broadcasts, clock, mode>>

(* -------------------------- plain http variant ------------------------- *)
\* getBroadcasts: JSON.parse of the whole of broadcast-messages.json. The
\* document is the object {messages: [...]} that the start-up code and
\* saveBroadcastMessages write; saveBroadcasts, which would write a bare
\* array, is called only after a method of Array was applied to this value
getBroadcasts == [isArray |-> FALSE, messages |-> broadcasts]

\* POST /api/broadcasts/send of the variant on http.createServer:
\* broadcasts.push on the object throws a TypeError, answered 500 by the catch
HttpSendBroadcast(title, message) ==
  LET devs == getDevices
      bs == getBroadcasts
  IN
  /\ UNCHANGED <<devices, pending, sent, clock, mode, loop>>
  /\ IF title = Absent \/ message = Absent
       THEN /\ resp' = Response("httpSendBroadcast", 400,
                 "Title and message are required", 0, 0, "")
            /\ UNCHANGED broadcasts
       ELSE IF Len(devs) = 0
         THEN /\ resp' = Response("httpSendBroadcast", 404,
                   "No devices registered", 0, 0, "")
              /\ UNCHANGED broadcasts
         ELSE IF ~bs.isArray
           THEN /\ resp' = Response("httpSendBroadcast", 500,
                     "broadcasts.push is not a function", 0, 0, "")
                /\ UNCHANGED broadcasts
           ELSE /\ Len(bs.messages) < MaxBroadcasts
                /\ broadcasts' = Append(bs.messages,
                                        NewBroadcast(title, message, devs, clock))
                /\ resp' = Response("httpSendBroadcast", 200, "Broadcast sent",
                                    clock, Len(devs), "")

\* POST /api/broadcasts/received of the same variant: broadcasts.findIndex on
\* the object throws as well
HttpReceived(broadcastId, deviceId) ==
  LET bs == getBroadcasts
      broadcastIndex == FindIndex(ById(bs.messages, broadcastId))
  IN
  /\ UNCHANGED <<devices, pending, sent, clock, mode, loop>>
  /\ IF broadcastId = 0 \/ deviceId = 0
       THEN /\ resp' = Response("httpReceived", 400,
                 "Broadcast ID and Device ID are required", broadcastId, 0, "")
            /\ UNCHANGED broadcasts
       ELSE IF ~bs.isArray
         THEN /\ resp' = Response("httpReceived", 500,
                   "broadcasts.findIndex is not a function", broadcastId, 0, "")
              /\ UNCHANGED broadcasts
         ELSE IF broadcastIndex = 0
           THEN /\ resp' = Response("httpReceived", 404, "Broadcast not found",
                                    broadcastId, 0, "")
                /\ UNCHANGED broadcasts
           ELSE /\ broadcasts' = [bs.messages EXCEPT
                                    ![broadcastIndex] = PushReceived(@, deviceId)]
                /\ resp' = Response("httpReceived", 200,
                     "Broadcast marked as received", broadcastId, 0,
                     ReceivedNote(bs.messages[broadcastIndex], deviceId))

(* --------------------------- specifications ---------------------------- *)
\* registrations that supply only a token and, possibly, the user "u1"
PlainDeviceInputs ==
  {in \in DeviceInputs :
     in.id = 0 /\ in.lastSeen = 0 /\ in.userId \in {Absent, "u1"}}

\* upserts of the user "u1" that supply at most a token
PlainUserInputs ==
  {u \in UserInputs :
     u.email = Absent /\ u.displayName = Absent /\ u.id \in {Absent, "u1"}}

\* the message lifecycle: compose, send to all, read receipts
Next ==
  \/ Tick
  \/ \E in \in PlainDeviceInputs : RegisterDevice(in)
  \/ \E t \in TextInputs, b \in TextInputs : CreateMessage(t, b)
  \/ \E m \in IdInputs : SendMessage(m)
  \/ \E m \in IdInputs, d \in IdInputs : MarkRead(m, d)

Spec == Init /\ [][Next]_vars

\* compose and send to the devices of target users
NextTargeted ==
  \/ Tick
  \/ \E in \in PlainDeviceInputs : RegisterDevice(in)
  \/ \E t \in TextInputs, b \in TextInputs : CreateMessage(t, b)
  \/ \E m \in IdInputs, tu \in TargetInputs : SendTargeted(m, tu)

SpecTargeted == Init /\ [][NextTargeted]_vars

\* the device registry and the derived users
NextDevices ==
  \/ Tick
  \/ \E in \in DeviceInputs : RegisterDevice(in)
  \/ \E u \in UserInputs : UpsertUser(u)

SpecDevices == Init /\ [][NextDevices]_vars

\* sent records against later changes of the registry
NextSnapshot ==
  \/ Tick
  \/ \E in \in PlainDeviceInputs : RegisterDevice(in)
  \/ \E u \in PlainUserInputs : UpsertUser(u)
  \/ \E t \in TextInputs, b \in TextInputs : CreateMessage(t, b)
  \/ \E m \in IdInputs : SendMessage(m)

SpecSnapshot == Init /\ [][NextSnapshot]_vars

\* broadcasts and their receive confirmations through every binding
NextBroadcasts ==
  \/ Tick
  \/ \E in \in PlainDeviceInputs : RegisterDevice(in)
  \/ \E t \in TextInputs, b \in TextInputs : SendBroadcast(t, b)
  \/ \E b \in IdInputs, d \in IdInputs : PostReceived(b, d)
  \/ \E b \in IdInputs, d \in IdInputs : AliasReceived(b, d)
  \/ \E b \in IdInputs, d \in IdInputs, st \in StatusInputs : PutBroadcast(b, d, st)
  \/ \E b \in IdInputs, d \in IdInputs, st \in StatusInputs : PatchBroadcast(b, d, st)

SpecBroadcasts == Init /\ [][NextBroadcasts]_vars

\* the whole life of a message: compose, send to all or to target users, read;
\* the registrations supply a token only
TokenDeviceInputs == {in \in PlainDeviceInputs : in.userId = Absent}

NextLifecycle ==
  \/ Tick
  \/ \E in \in TokenDeviceInputs : RegisterDevice(in)
  \/ \E t \in TextInputs, b \in TextInputs : CreateMessage(t, b)
  \/ \E m \in IdInputs : SendMessage(m)
  \/ \E m \in IdInputs, tu \in TargetInputs : SendTargeted(m, tu)
  \/ \E m \in IdInputs, d \in IdInputs : MarkRead(m, d)

SpecLifecycle == Init /\ [][NextLifecycle]_vars

\* sending broadcasts and reading them back
NextRecent ==
  \/ Tick
  \/ \E in \in PlainDeviceInputs : RegisterDevice(in)
  \/ \E t \in TextInputs, b \in TextInputs : SendBroadcast(t, b)
  \/ ListBroadcasts
  \/ \E l \in LimitInputs : RecentBroadcasts(l)

SpecRecent == Init /\ [][NextRecent]_vars

\* registrations that supply a token and, possibly, an id
IdDeviceInputs ==
  [token : Tokens, userId : {Absent}, id : {0, 1, FalsyId}, lastSeen : {0}]

NextRegister ==
  \/ Tick
  \/ \E in \in IdDeviceInputs : RegisterDevice(in)

SpecRegister == Init /\ [][NextRegister]_vars

\* registrations of the devices of two users
UserDeviceInputs ==
  {in \in DeviceInputs : in.id = 0 /\ in.lastSeen = 0 /\ in.token # Absent}

NextUsers ==
  \/ Tick
  \/ \E in \in UserDeviceInputs : RegisterDevice(in)
  \/ ListUsers
  \/ \E u \in UserIds : GetUser(u)

SpecUsers == Init /\ [][NextUsers]_vars

\* users created and updated over the devices of two users, in one millisecond
NextUpsert ==
  \/ \E in \in UserDeviceInputs : RegisterDevice(in)
  \/ \E u \in UserInputs : UpsertUser(u)

SpecUpsert == Init /\ [][NextUpsert]_vars

\* the variant on http.createServer: registry and broadcasts
NextHttp ==
  \/ Tick
  \/ \E in \in PlainDeviceInputs : RegisterDevice(in)
  \/ \E t \in TextInputs, b \in TextInputs : HttpSendBroadcast(t, b)
  \/ \E b \in IdInputs, d \in IdInputs : HttpReceived(b, d)
  \/ ListBroadcasts

SpecHttp == Init /\ [][NextHttp]_vars

\* sends in which a write to disk may fail
NextFailure ==
  \/ Tick
  \/ \E in \in TokenDeviceInputs : RegisterDevice(in)
  \/ \E t \in TextInputs, b \in TextInputs : CreateMessage(t, b)
  \/ \E m \in IdInputs : SendMessage(m)
  \/ \E m \in IdInputs, w \in WriteInputs : SendMessageWriteFails(m, w)
  \/ \E m \in IdInputs, tu \in TargetInputs, w \in WriteInputs :
       SendTargetedWriteFails(m, tu, w)

SpecFailure == Init /\ [][NextFailure]_vars

\* registrations that arrive while a handler is running
NextLoop ==
  \/ Tick
  \/ \E t \in Tokens : Arrive(t)
  \/ \E t \in Tokens : HandlerLoad(t)
  \/ \E a \in loop.active : HandlerMutate(a)
  \/ \E a \in loop.active : HandlerSave(a)

SpecLoop == Init /\ [][NextLoop]_vars

\* every handler that can refuse a request, in one millisecond: one token, the
\* user "u1", upserts without a token, one text, confirmations by device 1
OneDeviceInputs == {in \in PlainDeviceInputs : in.token \in {Absent, "t1"}}

OneUserInputs == {u \in PlainUserInputs : u.token = Absent}

OneTargetInputs == {tu \in TargetInputs : tu.users \in {{}, {"u2"}}}

NextErrors ==
  \/ \E in \in OneDeviceInputs : RegisterDevice(in)
  \/ \E u \in OneUserInputs : UpsertUser(u)
  \/ \E t \in TextInputs : CreateMessage(t, t)
  \/ \E m \in IdInputs : SendMessage(m)
  \/ \E m \in IdInputs, tu \in OneTargetInputs : SendTargeted(m, tu)
  \/ \E m \in IdInputs, d \in IdInputs : MarkRead(m, d)
  \/ \E t \in TextInputs : SendBroadcast(t, t)
  \/ \E b \in IdInputs, d \in {0, 1} : PostReceived(b, d)
  \/ \E b \in IdInputs, d \in {0, 1}, st \in StatusInputs : PutBroadcast(b, d, st)
  \/ \E u \in UserIds : GetUser(u)
  \/ \E u \in UserIds : GetUserDevices(u)

SpecErrors == Init /\ [][NextErrors]_vars

(* ------------------------------- claims -------------------------------- *)
\* the indices of the records of s whose id is x
WithId(s, x) == {i \in 1..Len(s) : s[i].id = x}

\* C1: after sendMessage(id) returns success, no pending record has that id
\* and exactly one sent record has it.
C1_SendAtomic ==
  (resp.op = "sendMessage" /\ resp.status = 200) =>
    /\ WithId(pending, resp.id) = {}
    /\ Cardinality(WithId(sent, resp.id)) = 1

\* C2: at most one device record carries any given push token.
C2_OneDevicePerToken ==
  \A i, j \in 1..Len(devices) :
    devices[i].token = devices[j].token => i = j

\* C3: registerDevice of an unknown token adds exactly one device; of a known
\* token it adds none and leaves that device's lastSeen later than or equal to
\* the value it had, for every input record.
C3_RegisterCountAndLastSeen ==
  [][\A in \in DeviceInputs :
       (RegisterDevice(in) /\ in.token # Absent) =>
         LET known == {i \in 1..Len(devices) : devices[i].token = in.token}
         IN IF known = {}
              THEN Len(devices') = Len(devices) + 1
              ELSE /\ Len(devices') <= Len(devices)
                   /\ \A i \in known :
                        (\A j \in known : i <= j) =>
                          devices'[i].lastSeen >= devices[i].lastSeen]_vars

\* the least element of a non-empty set of indices
MinOf(S) == CHOOSE x \in S : \A y \in S : x <= y

\* deviceId, token and userId of a recipient entry agree with a device record
SnapshotOf(r, d) ==
  r.deviceId = d.id /\ r.token = d.token /\ r.userId = d.userId

\* C4: right after sendMessage the recipient list has one entry per registered
\* device, in registry order, carrying its id, token and userId; no later step
\* (registerDevice, upsertUser, ...) changes the length of the list of a sent
\* record or the deviceId, token or userId of an entry.
C4_RecipientSnapshot ==
  [][/\ \A m \in IdInputs :
          (SendMessage(m) /\ resp'.status = 200) =>
            LET r == sent'[Len(sent')].recipients
            IN /\ Len(sent') = Len(sent) + 1
               /\ Len(r) = Len(devices)
               /\ \A i \in 1..Len(r) : SnapshotOf(r[i], devices[i])
     /\ \A k \in 1..Len(sent) :
          /\ Len(sent') >= k
          /\ Len(sent'[k].recipients) = Len(sent[k].recipients)
          /\ \A j \in 1..Len(sent[k].recipients) :
               /\ sent'[k].recipients[j].deviceId = sent[k].recipients[j].deviceId
               /\ sent'[k].recipients[j].token = sent[k].recipients[j].token
               /\ sent'[k].recipients[j].userId = sent[k].recipients[j].userId]_vars

\* a sent record whose first recipient is the first device of the registry, by
\* id and user, while that device's token has been rotated since the send, and
\* a device registered after the send
C4_Witness ==
  \E k \in 1..Len(sent) :
    /\ Len(sent[k].recipients) = 1
    /\ Len(devices) = 2
    /\ sent[k].recipients[1].deviceId = devices[1].id
    /\ sent[k].recipients[1].userId = "u1"
    /\ sent[k].recipients[1].token # devices[1].token

\* C5: no broadcast's receivedBy list contains the same device id twice.
C5_NoDuplicateReceipts ==
  \A k \in 1..Len(broadcasts) :
    \A i, j \in 1..Len(broadcasts[k].receivedBy) :
      broadcasts[k].receivedBy[i] = broadcasts[k].receivedBy[j] => i = j

\* a repeated confirmation through PATCH of a broadcast two devices confirmed
C5_Witness ==
  /\ resp.op = "patchBroadcast"
  /\ resp.status = 200
  /\ resp.note = "already"
  /\ \E k \in 1..Len(broadcasts) : Len(broadcasts[k].receivedBy) = 2

\* C6: markRead on a recipient that is already "read" succeeds, leaves the
\* status "read" and sets readAt to the time of the call; no step takes a
\* recipient from "read" back to another status.
C6_MarkReadIdempotent ==
  [][/\ \A m \in IdInputs \ {0}, d \in IdInputs \ {0} :
          (MarkRead(m, d) /\ WithId(sent, m) # {}) =>
            LET mi == MinOf(WithId(sent, m))
                rs == {j \in 1..Len(sent[mi].recipients) :
                         sent[mi].recipients[j].deviceId = d}
            IN (rs # {} /\ sent[mi].recipients[MinOf(rs)].status = "read") =>
                 /\ resp'.status = 200
                 /\ sent'[mi].recipients[MinOf(rs)].status = "read"
                 /\ sent'[mi].recipients[MinOf(rs)].readAt = clock'
     /\ \A k \in 1..Len(sent) :
          \A j \in 1..Len(sent[k].recipients) :
            sent[k].recipients[j].status = "read" =>
              /\ Len(sent') >= k
              /\ Len(sent'[k].recipients) >= j
              /\ sent'[k].recipients[j].status = "read"]_vars

\* a second markRead of a recipient, at a later time than the send
C6_Witness ==
  /\ resp.op = "markRead"
  /\ resp.status = 200
  /\ resp.note = "read"
  /\ \E k \in WithId(sent, resp.id) :
       \E j \in 1..Len(sent[k].recipients) :
         /\ sent[k].recipients[j].status = "read"
         /\ sent[k].recipients[j].readAt = clock
         /\ sent[k].sentAt < clock

\* C9: with a message id supplied, sendMessage on an empty registry fails with
\* 404 "No devices registered" whether or not the id names a pending message,
\* and leaves pending unchanged; 404 "Message not found" is the answer exactly
\* when a device exists and no pending message has the id.
C9_DevicesCheckedFirst ==
  [][\A m \in IdInputs \ {0} :
       SendMessage(m) =>
         /\ Len(devices) = 0 =>
              /\ resp'.status = 404
              /\ resp'.msg = "No devices registered"
              /\ pending' = pending
         /\ (Len(devices) > 0 /\ WithId(pending, m) = {}) =>
              /\ resp'.status = 404
              /\ resp'.msg = "Message not found"
         /\ resp'.msg = "Message not found" =>
              Len(devices) > 0 /\ WithId(pending, m) = {}]_vars

\* sendMessage of a pending message refused because no device is registered
C9_Witness ==
  /\ resp.op = "sendMessage"
  /\ resp.status = 404
  /\ resp.msg = "No devices registered"
  /\ WithId(pending, resp.id) # {}

\* the indices of the registered devices a targetUsers value selects: those
\* whose userId is in a non-empty set, every device otherwise
Selected(targetUsers) ==
  IF targetUsers.present /\ targetUsers.users # {}
    THEN {i \in 1..Len(devices) : devices[i].userId \in targetUsers.users}
    ELSE 1..Len(devices)

\* C7: sendTargeted of an existing pending message whose selection of devices
\* is empty fails with 404 and leaves pending and sent unchanged.
C7_EmptySelectionKeepsPending ==
  [][\A m \in IdInputs \ {0}, tu \in TargetInputs :
       (SendTargeted(m, tu) /\ WithId(pending, m) # {} /\ Selected(tu) = {}) =>
         /\ resp'.status = 404
         /\ pending' = pending
         /\ sent' = sent
         /\ WithId(pending', m) # {}]_vars

\* a targeted send refused although the message is pending and devices exist
C7_Witness ==
  /\ resp.op = "sendTargeted"
  /\ resp.status = 404
  /\ resp.msg = "No matching devices found for specified users"
  /\ Len(devices) > 0
  /\ WithId(pending, resp.id) # {}

\* C8: sendBroadcast with title and message on an empty registry fails with
\* 404 "No devices registered" and leaves the broadcasts collection unchanged.
C8_BroadcastNeedsDevices ==
  [][\A t \in TextInputs \ {Absent}, b \in TextInputs \ {Absent} :
       (SendBroadcast(t, b) /\ Len(devices) = 0) =>
         /\ resp'.status = 404
         /\ resp'.msg = "No devices registered"
         /\ broadcasts' = broadcasts]_vars

\* a broadcast refused on an empty registry
C8_Witness ==
  /\ resp.op = "sendBroadcast"
  /\ resp.status = 404
  /\ resp.msg = "No devices registered"
  /\ Len(devices) = 0
  /\ Len(broadcasts) = 0

\* C10: a successful sendTargeted appends one sent record whose recipients are
\* the selected devices in registry order: those whose userId is in a
\* non-empty targetUsers, every device when targetUsers is absent or empty.
C10_TargetedRecipients ==
  [][\A m \in IdInputs, tu \in TargetInputs :
       (SendTargeted(m, tu) /\ resp'.status = 200) =>
         LET r == sent'[Len(sent')].recipients
             chosen == Selected(tu)
             Nth(j) == CHOOSE i \in chosen :
                         Cardinality({k \in chosen : k < i}) = j - 1
         IN /\ Len(sent') = Len(sent) + 1
            /\ Len(r) = Cardinality(chosen)
            /\ \A j \in 1..Len(r) :
                 /\ SnapshotOf(r[j], devices[Nth(j)])
                 /\ r[j].status = "sent"
                 /\ r[j].readAt = 0
            /\ ~(tu.present /\ tu.users # {}) =>
                 /\ Len(r) = Len(devices)
                 /\ \A i \in 1..Len(r) : SnapshotOf(r[i], devices[i])]_vars

\* a targeted send that reached one of two registered devices, the second
C10_Witness ==
  /\ resp.op = "sendTargeted"
  /\ resp.status = 200
  /\ Len(devices) = 2
  /\ Len(sent) > 0
  /\ Len(sent[Len(sent)].recipients) = 1
  /\ sent[Len(sent)].recipients[1].token = devices[2].token
  /\ devices[1].token # devices[2].token

\* C11: a successful sendTargeted tags the sent record "specific" when its
\* recipients were filtered by a non-empty targetUsers, and "all" when every
\* device was selected (targetUsers absent or empty).
C11_TargetTypeMatchesSelection ==
  [][\A m \in IdInputs, tu \in TargetInputs :
       (SendTargeted(m, tu) /\ resp'.status = 200) =>
         sent'[Len(sent')].targetType =
           IF tu.present /\ tu.users # {} THEN "specific" ELSE "all"]_vars

\* C12: every sent record has status "sent", a send timestamp, a targetType of
\* "all" or "specific" and recipients whose status is "sent" or "read"; every
\* pending record has status "pending".
C12_RecordShapes ==
  /\ \A k \in 1..Len(sent) :
       /\ sent[k].status = "sent"
       /\ sent[k].sentAt # 0
       /\ sent[k].targetType \in {"all", "specific"}
       /\ \A j \in 1..Len(sent[k].recipients) :
            sent[k].recipients[j].status \in {"sent", "read"}
  /\ \A k \in 1..Len(pending) : pending[k].status = "pending"

\* two versions of a sent record that differ at most in the status and readAt
\* of their recipients
SameButReceipts(a, b) ==
  /\ a.id = b.id /\ a.title = b.title /\ a.body = b.body
  /\ a.createdAt = b.createdAt /\ a.status = b.status /\ a.sentAt = b.sentAt
  /\ a.targetType = b.targetType
  /\ Len(a.recipients) = Len(b.recipients)
  /\ \A j \in 1..Len(a.recipients) :
       /\ a.recipients[j].deviceId = b.recipients[j].deviceId
       /\ a.recipients[j].token = b.recipients[j].token
       /\ a.recipients[j].userId = b.recipients[j].userId

\* C13: Sent is terminal. In every step each sent record keeps its position
\* and all its fields except the status and readAt of recipients; the sent
\* collection grows only at its end, by one record taken out of pending; and
\* pending gains a record only by createMessage, with status "pending".
C13_SentIsTerminal ==
  [][/\ Len(sent') >= Len(sent)
     /\ \A k \in 1..Len(sent) : SameButReceipts(sent[k], sent'[k])
     /\ Len(sent') > Len(sent) =>
          /\ Len(sent') = Len(sent) + 1
          /\ sent'[Len(sent')].status = "sent"
          /\ \E i \in 1..Len(pending) :
               /\ pending' = Splice(pending, i)
               /\ pending[i].id = sent'[Len(sent')].id
               /\ pending[i].createdAt = sent'[Len(sent')].createdAt
     /\ \/ pending' = pending
        \/ \E i \in 1..Len(pending) :
             pending' = Splice(pending, i) /\ Len(sent') = Len(sent) + 1
        \/ /\ resp'.op = "createMessage"
           /\ Len(pending') = Len(pending) + 1
           /\ SubSeq(pending', 1, Len(pending)) = pending
           /\ pending'[Len(pending')].status = "pending"
           /\ sent' = sent]_vars

\* two sent records in send order, the earlier one read by its recipient after
\* the later one was sent, and nothing pending
C13_Witness ==
  /\ resp.op = "markRead"
  /\ resp.status = 200
  /\ Len(sent) = 2
  /\ Len(pending) = 0
  /\ sent[1].sentAt < sent[2].sentAt
  /\ sent[1].recipients[1].status = "read"
  /\ sent[1].recipients[1].readAt >= sent[2].sentAt

\* C14: the two backends are interchangeable. Every recentBroadcasts step
\* leaves in the store, and returns, what the file backend leaves and returns
\* from the same collections, so that a following listBroadcasts is the same.
C14_BackendsAgree ==
  [][\A l \in LimitInputs :
       RecentBroadcasts(l) =>
         /\ broadcasts' = RecentResult("file", broadcasts, l).stored
         /\ resp'.body = RecentResult("file", broadcasts, l).body]_vars

\* the outcome of markBroadcastReceived(b, d): ValidationError when an id is
\* absent, NotFound when no broadcast has the id, success otherwise
ReceivedStatus(b, d) ==
  IF b = 0 \/ d = 0 THEN 400 ELSE IF WithId(broadcasts, b) = {} THEN 404 ELSE 200

\* the broadcasts collection after markBroadcastReceived(b, d): d added to the
\* receivedBy of the first broadcast with id b unless it is there already
ReceivedStore(b, d) ==
  IF ReceivedStatus(b, d) = 200
    THEN [broadcasts EXCEPT ![MinOf(WithId(broadcasts, b))].receivedBy =
            IF Includes(@, d) THEN @ ELSE Append(@, d)]
    ELSE broadcasts

\* a step of any of the four bindings of markBroadcastReceived
AnyBinding(b, d, st) ==
  \/ PostReceived(b, d)
  \/ AliasReceived(b, d)
  \/ PutBroadcast(b, d, st)
  \/ PatchBroadcast(b, d, st)

\* C15: POST, the alias POST, PUT and PATCH have the same effect: for every
\* broadcast id and device id each reports the same outcome and leaves the
\* same receivedBy lists, with or without a status field.
C15_BindingsEquivalent ==
  [][\A b \in IdInputs, d \in IdInputs, st \in StatusInputs :
       AnyBinding(b, d, st) =>
         /\ resp'.status = ReceivedStatus(b, d)
         /\ broadcasts' = ReceivedStore(b, d)]_vars

\* C16: through every binding, an absent broadcast id or device id is answered
\* 400 and an id that no broadcast has 404, with the broadcasts unchanged;
\* success is not reported in these cases.
C16_ReceivedErrors ==
  [][\A b \in IdInputs, d \in IdInputs, st \in StatusInputs :
       AnyBinding(b, d, st) =>
         /\ (b = 0 \/ d = 0) =>
              resp'.status = 400 /\ broadcasts' = broadcasts
         /\ (b # 0 /\ d # 0 /\ WithId(broadcasts, b) = {}) =>
              resp'.status = 404 /\ broadcasts' = broadcasts]_vars

\* C17: for every broadcast, each device id in receivedBy is one of its
\* recipients.
C17_ReceivedBySubset ==
  \A k \in 1..Len(broadcasts) :
    \A i \in 1..Len(broadcasts[k].receivedBy) :
      Includes(broadcasts[k].recipients, broadcasts[k].receivedBy[i])

\* C18: in every variant, sendBroadcast with title, message and at least one
\* device succeeds, returns the device count and appends one broadcast whose
\* recipients are the registered device ids, whose receivedBy is empty and
\* whose data carries the source marker and the broadcast's id.
C18_SendBroadcastStores ==
  [][\A t \in TextInputs \ {Absent}, m \in TextInputs \ {Absent} :
       ((SendBroadcast(t, m) \/ HttpSendBroadcast(t, m)) /\ Len(devices) > 0) =>
         /\ resp'.status = 200
         /\ resp'.count = Len(devices)
         /\ Len(broadcasts') = Len(broadcasts) + 1
         /\ LET nb == broadcasts'[Len(broadcasts')]
            IN /\ nb.recipients = [i \in 1..Len(devices) |-> devices[i].id]
               /\ nb.receivedBy = <<>>
               /\ nb.data.source = "broadcast"
               /\ nb.data.broadcastId = nb.id
               /\ nb.id = resp'.id]_vars

\* C19: a successful registerDevice returns the id of the device record that
\* holds the submitted token after the call, whatever id the input supplies.
C19_ReturnsResolvedId ==
  [][\A in \in IdDeviceInputs :
       (RegisterDevice(in) /\ resp'.status = 200) =>
         /\ ByToken(devices', in.token) # {}
         /\ resp'.id = devices'[MinOf(ByToken(devices', in.token))].id]_vars

\* C20: listUsers returns one entry per userId found among the devices and
\* none for devices without a user; an entry's deviceCount is the number of
\* devices of that user, the length of the entry's device-id list, and the
\* deviceCount of getUser for that user.
C20_ListUsersCounts ==
  [][ListUsers =>
       LET users == resp'.body
           Owned(u) == {i \in 1..Len(devices) : devices[i].userId = u}
       IN /\ \A u \in UserIds :
               Cardinality({k \in 1..Len(users) : users[k].id = u}) =
                 IF Owned(u) = {} THEN 0 ELSE 1
          /\ \A k \in 1..Len(users) :
               /\ users[k].id \in UserIds
               /\ users[k].deviceCount = Cardinality(Owned(users[k].id))
               /\ users[k].deviceCount = Len(users[k].devices)
               /\ users[k].deviceCount =
                    UserOf(devices, users[k].id).deviceCount]_vars

\* C21: upsertUser without a user id fails with 400 and changes nothing; for a
\* user without devices and with a token it appends one device of that user
\* and changes no other; for a user with devices it applies the token, email
\* and display-name updates to each of them and leaves the number of devices
\* and the devices of other users as they were.
C21_UpsertUserFrame ==
  [][\A u \in UserInputs :
       (resp'.op = "upsertUser" /\ UpsertUser(u)) =>
         LET owned == {i \in 1..Len(devices) : devices[i].userId = u.id}
         IN IF u.id = Absent
              THEN resp'.status = 400 /\ devices' = devices
              ELSE IF owned = {} /\ u.token # Absent
                THEN /\ Len(devices') = Len(devices) + 1
                     /\ SubSeq(devices', 1, Len(devices)) = devices
                     /\ devices'[Len(devices')].userId = u.id
                     /\ devices'[Len(devices')].token = u.token
                ELSE /\ Len(devices') = Len(devices)
                     /\ \A i \in 1..Len(devices) :
                          IF i \in owned
                            THEN /\ devices'[i].id = devices[i].id
                                 /\ devices'[i].userId = u.id
                                 /\ devices'[i].token =
                                      OrElse(u.token, devices[i].token)
                                 /\ devices'[i].email =
                                      OrElse(u.email, devices[i].email)
                                 /\ devices'[i].deviceName =
                                      OrElse(u.displayName,
                                        OrElse(u.email, devices[i].deviceName))
                            ELSE devices'[i] = devices[i]]_vars

\* an upsert that reached both devices of a user: they carry the token and the
\* email of the request
C21_Witness ==
  /\ resp.op = "upsertUser"
  /\ resp.status = 200
  /\ resp.count = 2
  /\ Len(devices) = 2
  /\ devices[1].token = devices[2].token
  /\ devices[1].email = "e1"
  /\ devices[2].email = "e1"

\* C22: handler bodies are serialized: at most one handler is between its load
\* and its save, and when none is, every answered registration of a new token
\* has its device in the registry: no update is lost.
C22_HandlersSerialized ==
  /\ Cardinality(loop.active) <= 1
  /\ loop.active = {} =>
       /\ Len(devices) = Cardinality(loop.done)
       /\ \A t \in loop.done : ByToken(devices, t) # {}

\* two registrations answered, the second of which arrived while the handler
\* of the first was running
C22_Witness ==
  /\ loop.overlapped
  /\ loop.active = {}
  /\ loop.done = Tokens
  /\ Len(devices) = 2

\* C23: when the write of the sent collection fails in sendMessage or
\* sendTargeted (file backend), the answer is 500, the pending record is gone
\* from the stored pending collection and the sent collection is unchanged.
C23_FailedSendLosesMessage ==
  [][\A m \in IdInputs, tu \in TargetInputs :
       (SendMessageWriteFails(m, "sent") \/ SendTargetedWriteFails(m, tu, "sent")) =>
         LET i == MinOf(WithId(pending, m))
         IN /\ resp'.status = 500
            /\ sent' = sent
            /\ Len(pending') = Len(pending) - 1
            /\ \A j \in 1..Len(pending') :
                 pending'[j] = IF j < i THEN pending[j] ELSE pending[j + 1]]_vars

\* a send answered 500 after which the message is in neither collection
C23_Witness ==
  /\ resp.op = "sendMessage"
  /\ resp.status = 500
  /\ resp.note = "sent"
  /\ WithId(pending, resp.id) = {}
  /\ WithId(sent, resp.id) = {}

\* C24: a step that ends with 400 or 404 leaves devices, pending, sent and
\* broadcasts as they were.
C24_ErrorsChangeNothing ==
  [][resp'.status \in {400, 404} =>
       UNCHANGED <<devices, pending, sent, broadcasts>>]_vars

\* a targeted send of a pending message refused in the memory backend because
\* no registered device belongs to the target users
C24_Witness ==
  /\ mode = "memory"
  /\ resp.op = "sendTargeted"
  /\ resp.status = 404
  /\ resp.msg = "No matching devices found for specified users"
  /\ WithId(pending, resp.id) # {}
  /\ Len(devices) > 0

\* C25: markRead with both ids answers 404 "Message not found" when no sent
\* record has the id and 404 "Recipient not found" when the first such record
\* has no entry for the device; otherwise it succeeds and changes only status
\* and readAt of the first entry for the device in that record.
C25_MarkReadFrame ==
  [][\A m \in IdInputs \ {0}, d \in IdInputs \ {0} :
       MarkRead(m, d) =>
         /\ UNCHANGED <<devices, pending, broadcasts>>
         /\ IF WithId(sent, m) = {}
              THEN /\ resp'.status = 404
                   /\ resp'.msg = "Message not found"
                   /\ sent' = sent
              ELSE LET mi == MinOf(WithId(sent, m))
                       rs == {j \in 1..Len(sent[mi].recipients) :
                                sent[mi].recipients[j].deviceId = d}
                   IN IF rs = {}
                        THEN /\ resp'.status = 404
                             /\ resp'.msg = "Recipient not found"
                             /\ sent' = sent
                        ELSE /\ resp'.status = 200
                             /\ sent' = [sent EXCEPT
                                  ![mi].recipients[MinOf(rs)] =
                                    [@ EXCEPT !.status = "read",
                                              !.readAt = clock]]]_vars

\* a read receipt of one of the two recipients of a record: the other is
\* still unread
C25_Witness ==
  /\ resp.op = "markRead"
  /\ resp.status = 200
  /\ \E k \in WithId(sent, resp.id) :
       /\ Len(sent[k].recipients) = 2
       /\ sent[k].recipients[1].status = "sent"
       /\ sent[k].recipients[1].readAt = 0
       /\ sent[k].recipients[2].status = "read"

\* no two records of a sequence have the same id
UniqueIds(s) == \A i, j \in 1..Len(s) : s[i].id = s[j].id => i = j

\* C26: ids are unique within the devices, within the pending and sent
\* messages together, and within the broadcasts.
C26_UniqueIds ==
  /\ UniqueIds(devices)
  /\ UniqueIds(pending \o sent)
  /\ UniqueIds(broadcasts)

\* C27: no step changes the id or the createdAt of an existing device record.
C27_DeviceIdFixed ==
  [][\A i \in 1..Len(devices) :
       /\ Len(devices') >= i
       /\ devices'[i].id = devices[i].id
       /\ devices'[i].createdAt = devices[i].createdAt]_vars

\* C28: after a successful upsertUser of user u at least one device has userId
\* u, and the deviceCount returned is the number of devices of u.
C28_UpsertedUserExists ==
  [][\A u \in UserInputs :
       (UpsertUser(u) /\ resp'.status = 200) =>
         /\ Len(UserDevices(devices', u.id)) > 0
         /\ resp'.count = Len(UserDevices(devices', u.id))]_vars

\* C29: the read operations change no collection, neither its contents nor
\* its order.
C29_ReadsChangeNothing ==
  [][(\/ ListBroadcasts
      \/ \E l \in LimitInputs : RecentBroadcasts(l)
      \/ ListUsers
      \/ \E u \in UserIds : GetUser(u) \/ GetUserDevices(u)) =>
       UNCHANGED <<devices, pending, sent, broadcasts>>]_vars

====
